---- MODULE Spec2Model ----
(***************************************************************************)
(* The authenticated request dispatch engine of pyfy: the blocking client  *)
(* (pyfy/sync_client.py, Spotify), the cooperative client                  *)
(* (pyfy/async_client.py, AsyncSpotify), their common base                 *)
(* (pyfy/base_client.py, _BaseClient), the credential models               *)
(* (pyfy/creds.py) and the request wrapper (pyfy/wrappers.py).             *)
(*                                                                         *)
(* Every coroutine / call chain is a task with an explicit stack of        *)
(* continuation frames.  A task runs from one suspension point (a request  *)
(* on the wire) to the next; each action is one handler of the source.     *)
(***************************************************************************)
EXTENDS Integers, Sequences, FiniteSets, TLC

(***************************************************************************)
(* Bounds of the model                                                     *)
(***************************************************************************)
\* wire sends allowed inside one top-level operation
MaxWire == 4
\* largest batch handed to gather
MaxBatch == 2
\* largest value of the clock
MaxTime == 1
\* largest max_retries a client is constructed with
MaxRetriesBound == 2
\* invocations in a row of one operation that are told apart
MaxRepeat == 2

(***************************************************************************)
(* Program constants                                                       *)
(***************************************************************************)
TOKEN_EXPIRED_MSG == "The access token expired"

\* access tokens the provider can issue
Tokens == {"t1", "t2"}
\* refresh tokens
RefreshTokens == {"r1"}
\* the lifetimes (expires_in) the provider grants: positive
ExpiresIn == {1}
\* Python's None for string-valued attributes
None == "None"
\* Python's None for the expiry attribute (a datetime otherwise)
NoExpiry == -1
\* object ids of the credential objects; 0 is Python's None reference
ClientObj == 1
UserObj == 2
OtherUserObj == 3
OtherClientObj == 4
NoObj == 0
\* the UserCreds objects, and the one that is not the client's user credential
UserObjs == {UserObj, OtherUserObj}
ClientObjs == {ClientObj, OtherClientObj}
Objs == ClientObjs \cup UserObjs
Fresh(uc) == IF uc = UserObj THEN OtherUserObj ELSE UserObj

\* tasks: 0 is the calling task, 1..MaxBatch the futures gather fans out
TaskIds == 0..MaxBatch

(***************************************************************************)
(* HTTP values                                                             *)
(***************************************************************************)
\* header values are sequences of strings: <<>> is "no Authorization header"
NoHeader == <<>>
BasicHeader == <<"Basic", "id:secret">>
BearerHeader(tok) == <<"Bearer", tok>>

\* a request descriptor: kind, url and the Authorization header are the
\* program's; the other fields record its history
\*   prev : Authorization value of the failed attempt this is a resend of
\*   pro  : access_is_expired as the authorized send evaluated it on entry
\*   rd0  : refreshes completed when the authorized send was entered
\*   rd1  : refreshes completed when the request was first put on the wire
\*   cur  : bearer value of the active caller when it was first put on the wire
\*   att  : the times it was put on the wire
\*   rda  : refreshes completed when its Authorization header was attached
\*   stale : when it was last put on the wire, a refresh completed after the
\*           header was attached had replaced the access token it carries
\*   by0, by : the active caller (object id) when its first Authorization
\*           header was attached, and when the one it carries was
Req(kind, url, auth) ==
    [kind |-> kind, url |-> url, auth |-> auth, prev |-> <<>>,
     pro |-> "n/a", rd0 |-> -1, rd1 |-> -1, cur |-> <<>>, att |-> 0,
     rda |-> -1, stale |-> FALSE, by0 |-> 0, by |-> 0]
NoReq == Req("none", 0, NoHeader)

\* response bodies
\*   bk   : "json" | "empty" | "nonjson"
\*   err  : "none" (no error key) | "dict" (error object) | "str" (error string)
\*   msg  : error.message when err = "dict"
\*   desc : TRUE when the object has an error_description
\*   for  : url of the resource the payload describes (success bodies)
\*   tok, exp, rt : access_token, expires_in, refresh_token of a token grant
Body(bk, err, msg, desc, for, tok, exp, rt) ==
    [bk |-> bk, err |-> err, msg |-> msg, desc |-> desc, for |-> for,
     tok |-> tok, exp |-> exp, rt |-> rt]
EmptyObj == Body("json", "none", "", FALSE, 0, None, 0, None)
BodyEmpty == Body("empty", "none", "", FALSE, 0, None, 0, None)
BodyNonJson == Body("nonjson", "none", "", FALSE, 0, None, 0, None)
ErrExpired == Body("json", "dict", TOKEN_EXPIRED_MSG, FALSE, 0, None, 0, None)
ErrOther == Body("json", "dict", "Invalid access token", FALSE, 0, None, 0, None)
ErrOAuth == Body("json", "str", "", TRUE, 0, None, 0, None)
OkApi(url) == Body("json", "none", "", FALSE, url, None, 0, None)
OkToken(tok, exp, rt) == Body("json", "none", "", FALSE, 0, tok, exp, rt)

\* a response; status 0 stands for "no response: the request timed out"
Resp(status, body) == [status |-> status, body |-> body]
NoResp == Resp(-1, BodyEmpty)
TimedOut == Resp(0, BodyEmpty)

\* the bodies of a 401: the token-expired message, another message, and an
\* object whose "error" is not an object (the shape of the token endpoint)
ErrorBodies == {ErrExpired, ErrOther, ErrOAuth}

\* the success bodies the provider can answer a request with
SuccessBodies(r) ==
    CASE r.kind = "token_cc" ->
           {OkToken(tok, exp, None) : tok \in Tokens, exp \in ExpiresIn}
      [] r.kind = "token_refresh" ->
           {OkToken(tok, exp, rt) : tok \in Tokens, exp \in ExpiresIn,
                                    rt \in RefreshTokens \cup {None}}
      [] r.kind = "token_code" ->
           {OkToken(tok, exp, rt) : tok \in Tokens, exp \in ExpiresIn,
                                    rt \in RefreshTokens}
      [] OTHER -> {OkApi(r.url), BodyEmpty}

\* everything the transport can answer a request with
Responses(r) ==
    {Resp(200, b) : b \in SuccessBodies(r)}
      \cup {Resp(401, b) : b \in ErrorBodies}
      \cup {Resp(429, ErrOther), Resp(500, ErrOther), Resp(500, BodyNonJson)}
      \cup {TimedOut}

(***************************************************************************)
(* Python values: what a call returns or raises                            *)
(*   t = "none" None, "res" a response object, "json" a decoded body,      *)
(*       "exc" a raised exception, "list" a list of values,                *)
(*       "True" / "False" a bool, "creds" a credential object (obj)        *)
(***************************************************************************)
Val(t, exc, status, body, items) ==
    [t |-> t, exc |-> exc, status |-> status, body |-> body, items |-> items,
     obj |-> NoObj]
NoneVal == Val("none", "", -1, BodyEmpty, <<>>)
ResVal(res) == Val("res", "", res.status, res.body, <<>>)
JsonVal(body) == Val("json", "", -1, body, <<>>)
EmptyDict == JsonVal(EmptyObj)
Raise(exc, res) == Val("exc", exc, res.status, res.body, <<>>)
ListVal(items) == Val("list", "", -1, BodyEmpty, items)
BoolVal(b) == Val(IF b THEN "True" ELSE "False", "", -1, BodyEmpty, <<>>)
CredsVal(o) == [Val("creds", "", -1, BodyEmpty, <<>>) EXCEPT !.obj = o]

\* the exception classes of pyfy/excs.py and the untyped ones that escape
TypedErrors == {"AuthError", "ApiError", "_TooManyRequests"}
\* isinstance(e, ApiError): _TooManyRequests subclasses ApiError
IsApiError(exc) == exc \in {"ApiError", "_TooManyRequests"}

(***************************************************************************)
(* State                                                                   *)
(***************************************************************************)
VARIABLES
    IS_ASYNC,           \* class attribute: FALSE Spotify, TRUE AsyncSpotify
    max_retries,        \* self.max_retries
    timeout_is_retried, \* TRUE when the TimeoutError imported by async_client
                        \* is the class a timed-out aiohttp request raises
    creds,              \* the credential objects, by object id
    client_creds,       \* self.client_creds (object id)
    user_creds,         \* self._user_creds (object id or NoObj)
    caller,             \* self._caller (object id or NoObj)
    session,            \* self._session of the blocking client: its mounts
    now,                \* datetime.utcnow()
    stack,              \* per task: stack of continuation frames
    ctl,                \* per task: where the task is
    batch,              \* arguments of the running gather
    h                   \* history of the running top-level operation

vars == <<IS_ASYNC, max_retries, timeout_is_retried, creds, client_creds,
          user_creds, caller, session, now, stack, ctl, batch, h>>

\* the part of the state no operation changes
config == <<IS_ASYNC, max_retries, timeout_is_retried>>

(***************************************************************************)
(* Credential models (pyfy/creds.py)                                       *)
(***************************************************************************)
\* the defaults of ClientCreds.__init__ and the values an application sets
ALL_SCOPES == "ALL_SCOPES"
DefaultRedirectUri == "http://localhost"
AppScopes == "user-read-email"
AppRedirectUri == "https://app/callback"
\* the scope a token response carries, and the id of the user
GrantedScopes == "user-read-private"
UserId == "u1"

\* ClientCreds.__init__ with scopes and redirect_uri left out (client_id and
\* client_secret are modelled by whether they are set), then access_token
\* and expiry assigned
ClientCreds(has_id, has_secret, access_token, expiry) ==
    [cls |-> "ClientCreds", client_id |-> has_id, client_secret |-> has_secret,
     access_token |-> access_token, refresh_token |-> None, expiry |-> expiry,
     scopes |-> ALL_SCOPES, redirect_uri |-> DefaultRedirectUri,
     user_id |-> None, show_dialog |-> "False"]

\* UserCreds.__init__ with scopes and user_id left out: scopes or [] is the
\* empty list, the user id and the profile fields are None
UserCreds(access_token, refresh_token, expiry) ==
    [cls |-> "UserCreds", client_id |-> FALSE, client_secret |-> FALSE,
     access_token |-> access_token, refresh_token |-> refresh_token,
     expiry |-> expiry,
     scopes |-> "[]", redirect_uri |-> None, user_id |-> None,
     show_dialog |-> None]

\* value is None, for attribute key of a credential
IsNone(key, value) ==
    CASE key \in {"client_id", "client_secret"} -> value = FALSE
      [] key = "expiry" -> value = NoExpiry
      [] OTHER -> value = None

\* for key, value in new.__dict__.items():
\*     if value is not None: setattr(old, key, value)
\* where keys are the attributes of the class of new
UpdateWith(old, new, keys) ==
    [key \in DOMAIN old |->
        IF key \in keys /\ ~IsNone(key, new[key]) THEN new[key] ELSE old[key]]

\* a faulty access_is_expired that compares with <
access_is_expired_strict(c, t) ==
    IF c.expiry = NoExpiry THEN "None"
    ELSE IF c.expiry < t THEN "True" ELSE "False"

\* Python's truth value of a string or list attribute: None and the empty
\* string or list are false
Truthy(value) == value \notin {None, "", "[]"}

\* ClientCreds.is_oauth_ready: client_id and redirect_uri and scopes and
\* show_dialog is not None
is_oauth_ready(c) ==
    c.client_id /\ Truthy(c.redirect_uri) /\ Truthy(c.scopes)
        /\ c.show_dialog # None

\* _Creds.access_is_expired: None without expiry, else expiry <= utcnow()
access_is_expired(c, t) ==
    IF c.expiry = NoExpiry THEN "None"
    ELSE IF c.expiry <= t THEN "True" ELSE "False"

\* getattr(self._caller, "access_is_expired", None)
caller_access_is_expired(cr, cl, t) ==
    IF cl = NoObj THEN "None" ELSE access_is_expired(cr[cl], t)

(***************************************************************************)
(* Sessions of the blocking client                                         *)
(***************************************************************************)
\* an HTTPAdapter: the Retry it was built with
Adapter(total, forcelist) == [total |-> total, status_forcelist |-> forcelist]
\* requests.Session(): both prefixes carry a default adapter without retries
\* (owner: the active caller for which the client created the session)
DefaultSession ==
    [owner |-> NoObj, http |-> Adapter(0, {}), https |-> Adapter(0, {})]

\* Spotify._create_session: both adapters are mounted on "http://", the
\* second mount replacing the first; "https://" keeps the default adapter
_create_session_sync(retries) ==
    LET retries_adapter == Adapter(retries, {429})
        cache_adapter == Adapter(0, {})
        s1 == [DefaultSession EXCEPT !.http = retries_adapter]
    IN  [s1 EXCEPT !.http = cache_adapter]

\* BASE_URI and OAUTH_TOKEN_URL are both https:// addresses
Scheme(r) == "https"

\* Session.get_adapter: the adapter mounted on the prefix of the url
get_adapter(sess, r) == IF Scheme(r) = "https" THEN sess.https ELSE sess.http

(***************************************************************************)
(* Headers (pyfy/base_client.py)                                           *)
(***************************************************************************)
\* Python values compared by the loop guard: a str or a dict with the one
\* key "Authorization"
PyStr(s) == [py |-> "str", val |-> s]
PyDict(s) == [py |-> "dict", val |-> s]
\* Python's ==: values of different types are never equal
PyEq(a, b) == a.py = b.py /\ a.val = b.val

\* _BaseClient._access_authorization_header (caller is not None)
_access_authorization_header(cr, cl) == PyDict(BearerHeader(cr[cl].access_token))

\* _BaseClient._client_authorization_header is defined iff id and secret are set
HasClientAuthorization(cr, cc) == cr[cc].client_id /\ cr[cc].client_secret

(***************************************************************************)
(* Tasks: continuation frames and control                                  *)
(***************************************************************************)
\* a frame: the function that waits, the request it holds, the tries and the
\* elapsed-time flag of a backoff loop, the captured old_auth_header
Frame(fn, r, tries, over, old) ==
    [fn |-> fn, r |-> r, tries |-> tries, over |-> over, old |-> old]
PlainFrame(fn, r) == Frame(fn, r, 0, FALSE, NoHeader)

\* control of a task
\*   "idle"  nothing runs            "wire"  request r is on the wire
\*   "ret"   v is being returned or raised to the top frame
\*   "sleep" the backoff loop sleeps before it sends r again
\*   "wait"  asyncio.gather waits for the futures
\*   "done"  the operation (or future) ended with v
Ctl(k, r, v) == [k |-> k, r |-> r, v |-> v]
Idle == Ctl("idle", NoReq, NoneVal)

\* a machine: the credentials, the caller, one task's stack and control, the
\* history.  Calls map machines to machines and run to the next suspension.
\* futs holds the futures a gather fans out, by task id.
NoFuts == [i \in {} |-> 0]
Machine(cr, cl, s, hh) ==
    [cr |-> cr, cl |-> cl, cc |-> client_creds, uc |-> user_creds,
     ses |-> session, s |-> s, h |-> hh, c |-> Idle, futs |-> NoFuts]

Returning(m, v) == [m EXCEPT !.c = Ctl("ret", NoReq, v)]
Raising(m, exc) == Returning(m, Raise(exc, NoResp))
Push(m, f) == [m EXCEPT !.s = Append(@, f)]
Pop(m) == [m EXCEPT !.s = SubSeq(@, 1, Len(@) - 1)]
Top(s) == s[Len(s)]

\* session.send / sess.request: the request goes on the wire (a backoff loop
\* that wraps the send holds the same request object)
Wire(m, r) ==
    LET st == /\ r.rda >= 0 /\ m.h.refreshDone > r.rda
              /\ m.cl # NoObj
              /\ r.auth # BearerHeader(m.cr[m.cl].access_token)
        r1 == IF r.att = 0
              THEN [r EXCEPT !.att = 1,
                             !.rd1 = m.h.refreshDone,
                             !.cur = IF m.cl = NoObj THEN NoHeader
                                     ELSE BearerHeader(m.cr[m.cl].access_token),
                             !.stale = st]
              ELSE [r EXCEPT !.att = @ + 1, !.stale = st]
        n == Len(m.s)
    IN  [m EXCEPT !.s = IF n > 0 /\ m.s[n].fn = "_send_request_with_backoff"
                        THEN [@ EXCEPT ![n].r = r1] ELSE @,
                  !.c = Ctl("wire", r1, NoneVal),
                  !.h.wires = @ + 1,
                  !.h.grants = IF r.kind = "token_cc" THEN @ + 1 ELSE @,
                  !.h.apiWires = IF r.kind = "api"
                                 THEN [@ EXCEPT ![r.url] = @ + 1] ELSE @]

\* AsyncSpotify._send_requests(r), gather False: a session is opened and the
\* request sent under a fresh backoff loop; Spotify._send_request(r): the
\* request is sent over self._session
Send(m, r) ==
    IF IS_ASYNC
    THEN Wire(Push(Push(m, PlainFrame("_send_requests", r)),
                   Frame("_send_request_with_backoff", r, 1, FALSE, NoHeader)), r)
    ELSE Wire(m, r)

\* a faulty _prep_refresh_user_token that does not look for the refresh token
RefreshUserTokenUnchecked(m) ==
    IF user_creds = NoObj THEN Raising(m, "AttributeError")
    ELSE IF ~HasClientAuthorization(m.cr, m.cc)
         THEN Raising(m, "AttributeError")
    ELSE LET r == Req("token_refresh", 0, BasicHeader)
         IN  Send(Push(m, PlainFrame("_refresh_user_token", r)), r)

\* _refresh_user_token: _prep_refresh_user_token, then the token request
RefreshUserToken(m) ==
    IF user_creds = NoObj THEN Raising(m, "AttributeError")
    ELSE IF m.cr[user_creds].refresh_token = None THEN Raising(m, "AuthError")
    ELSE IF ~HasClientAuthorization(m.cr, m.cc)
         THEN Raising(m, "AttributeError")
    ELSE LET r == Req("token_refresh", 0, BasicHeader)
         IN  Send(Push(m, PlainFrame("_refresh_user_token", r)), r)

\* _prep_authorize_client_creds(client_creds): a client credential that is
\* given (object o with the attributes c) becomes self.client_creds before
\* anything is looked at; self._caller is not touched
_prep_authorize_client_creds(m, o, c) ==
    IF o = NoObj THEN m ELSE [m EXCEPT !.cc = o, !.cr[o] = c]

\* authorize_client_creds(): _prep_authorize_client_creds, then the grant
AuthorizeClientCreds(m) ==
    IF ~HasClientAuthorization(m.cr, m.cc) THEN Raising(m, "AuthError")
    ELSE LET r == Req("token_cc", 0, BasicHeader)
         IN  Send(Push(m, PlainFrame("authorize_client_creds", r)), r)

\* a faulty routing that prefers the client-credentials grant whenever the
\* client credential holds an id and a secret
RefreshTokenClientFirst(m) ==
    LET m1 == [m EXCEPT !.h.refreshCalls = @ + 1]
    IN  IF HasClientAuthorization(m.cr, m.cc) THEN AuthorizeClientCreds(m1)
        ELSE IF m.cl = user_creds THEN RefreshUserToken(m1)
        ELSE Raising(m1, "AuthError")

\* _refresh_token: the strategy is chosen by identity of the caller
RefreshToken(m) ==
    LET m1 == [m EXCEPT !.h.refreshCalls = @ + 1]
    IN  IF m.cl = user_creds THEN RefreshUserToken(m1)
        ELSE IF m.cl = m.cc THEN AuthorizeClientCreds(m1)
        ELSE Raising(m1, "AuthError")

\* r.headers.update(self._access_authorization_header); send
AttachAndSend(m, r) ==
    IF m.cl = NoObj THEN Raising(m, "ApiError")
    ELSE Send(m, [r EXCEPT !.auth = _access_authorization_header(m.cr, m.cl).val,
                           !.rda = m.h.refreshDone,
                           !.by0 = m.cl, !.by = m.cl])

\* a faulty authorized send that evaluates access_is_expired and sends
\* without refreshing
SendAuthorizedUnrefreshed(m, r) ==
    LET exp == caller_access_is_expired(m.cr, m.cl, now)
    IN  AttachAndSend(m, [r EXCEPT !.pro = exp, !.rd0 = m.h.refreshDone])

\* _send_authorized_request(r) / _send_authorized_requests(r)
SendAuthorized(m, r) ==
    LET exp == caller_access_is_expired(m.cr, m.cl, now)
        r0 == [r EXCEPT !.pro = exp, !.rd0 = m.h.refreshDone]
    IN  IF exp = "True"
        THEN RefreshToken(Push(m, PlainFrame("_send_authorized_request", r0)))
        ELSE AttachAndSend(m, r0)

\* a method decorated with _dispatch_request (authorized_request True): the
\* request is prepared and handed to the authorized send
Dispatch(m, kind, url) ==
    LET r == Req(kind, url, NoHeader)
    IN  SendAuthorized(Push(m, PlainFrame("_dispatch_request", r)), r)

\* is_active: False without a caller, else _check_authorization() is called
is_active(m) ==
    IF m.cl = NoObj THEN Returning(m, BoolVal(FALSE))
    ELSE Dispatch(Push(m, PlainFrame("is_active", NoReq)), "probe", 0)

(***************************************************************************)
(* Construction                                                            *)
(***************************************************************************)
\* what an operation found when it started: the class of the active caller
\* ("none" without one), its access_is_expired, whether the user credential
\* holds a refresh token, whether the client credential holds id and secret
Pre(cr, cl, uc, cc, t) ==
    [caller |-> IF cl = NoObj THEN "none" ELSE cr[cl].cls,
     expired |-> caller_access_is_expired(cr, cl, t),
     rt |-> uc # NoObj /\ cr[uc].refresh_token # None,
     auth |-> HasClientAuthorization(cr, cc)]

\* history of an operation that has not started
\*   wires, grants, apiWires : requests put on the wire (all, client-credentials
\*                             grants, the api request of each url)
\*   refreshCalls, refreshDone : calls of _refresh_token, and those that returned
\*   reactive : calls of _refresh_token made by the 401 branch
\*   first, lastApi : the first response received, the last one to an api request
\*   rest200, all429 : every response after the first was 2xx; every one was 429
\*   last : the last response, with the counters as they were when it came
\*   over : a backoff loop read an elapsed time of max_time or more
\*   same : a refresh inside a 401 branch returned normally and left the
\*          Authorization value of the caller as the failed request had it
\*   snap : the credentials, the caller (for a property read on a credential,
\*          that credential), the time and the user credential when the
\*          operation was called, and its boolean argument
\*   nth : how many times in a row that operation has been called (up to
\*         MaxRepeat)
NoHistory ==
    [op |-> "none", wires |-> 0, grants |-> 0,
     apiWires |-> [u \in 1..MaxBatch |-> 0],
     refreshCalls |-> 0, refreshDone |-> 0, refreshDone0 |-> 0, reactive |-> 0,
     pro0 |-> "n/a",
     pre |-> [caller |-> "none", expired |-> "None", rt |-> FALSE, auth |-> FALSE],
     first |-> NoResp, lastApi |-> NoResp, rest200 |-> TRUE, all429 |-> TRUE,
     last |-> [res |-> NoResp, wires |-> 0, refreshCalls |-> 0],
     over |-> FALSE, same |-> FALSE,
     snap |-> [cr |-> [o \in Objs |-> UserCreds(None, None, NoExpiry)],
               cl |-> NoObj, at |-> 0, uc |-> NoObj, arg |-> FALSE],
     nth |-> 0]

\* the history of an operation that starts
Started(op) ==
    [NoHistory EXCEPT !.op = op,
                      !.pre = Pre(creds, caller, user_creds, client_creds, now)]

\* the history of a refresh() or authorize_client_creds() that starts
StartedOn(op) ==
    [Started(op) EXCEPT !.snap = [cr |-> creds, cl |-> caller, at |-> now,
                                  uc |-> user_creds, arg |-> FALSE],
                        !.nth = IF h.op # op THEN 1
                                ELSE IF h.nth < MaxRepeat THEN h.nth + 1
                                ELSE MaxRepeat]

\* the answer res to request r reaches the dispatcher (the responses of a
\* single send, a refresh and an authorization are recorded; a batch records
\* what its futures return)
Received(m, r, res) ==
    IF m.h.op = "gather" THEN m ELSE
    [m EXCEPT !.h.first = IF @ = NoResp THEN res ELSE @,
              !.h.rest200 = @ /\ (m.h.first = NoResp \/ res.status \in 200..299),
              !.h.all429 = @ /\ res.status = 429,
              !.h.lastApi = IF r.kind = "api" THEN res ELSE @,
              !.h.last = [res |-> res, wires |-> m.h.wires,
                          refreshCalls |-> m.h.refreshCalls]]

\* the running gather: its arguments, the number of finished futures, the
\* future that finished first and the outer future of asyncio.gather
\* (t = "pending" until it is resolved)
Pending == Val("pending", "", -1, BodyEmpty, <<>>)
Batch(n, return_exceptions, refresh_first) ==
    [n |-> n, return_exceptions |-> return_exceptions,
     refresh_first |-> refresh_first, nfinished |-> 0, firstdone |-> 0,
     fut |-> Pending]
NoBatch == Batch(0, FALSE, FALSE)

\* _BaseClient.__init__ (populate_user_creds and ensure_user_auth off, so that
\* construction sends nothing): the caller is the user credential when one
\* was given, else the client credential when it holds a token, else None
InitialCaller(cr, uc) ==
    IF uc # NoObj THEN uc
    ELSE IF cr[ClientObj].access_token \notin {None, ""} THEN ClientObj
    ELSE NoObj

\* a faulty constructor that lets the user credential given win over the
\* access token
__init__lenient(access_token, user_creds_arg, cr) ==
    LET uc == IF access_token # None /\ user_creds_arg = NoObj THEN UserObj
              ELSE user_creds_arg
        cr1 == IF access_token # None /\ user_creds_arg = NoObj
               THEN [cr EXCEPT ![UserObj] = UserCreds(access_token, None, NoExpiry)]
               ELSE cr
    IN  [exc |-> "", cr |-> cr1, uc |-> uc, cl |-> InitialCaller(cr1, uc)]

\* client_creds=ClientCreds() in the signature of __init__: the default is
\* evaluated once, when the class is defined, and every client constructed
\* without a client credential is given this one object
DefaultClientCreds == ClientObj

\* _BaseClient.__init__, from "Set access token then user_creds" on: the
\* exception raised ("" for none), the credentials, the user credential and
\* the caller
__init__(access_token, user_creds_arg, cr) ==
    IF access_token # None /\ user_creds_arg # NoObj
    THEN [exc |-> "ValueError", cr |-> cr, uc |-> NoObj, cl |-> NoObj]
    ELSE LET uc == IF access_token # None THEN UserObj ELSE user_creds_arg
             cr1 == IF access_token # None
                    THEN [cr EXCEPT ![UserObj] = UserCreds(access_token, None, NoExpiry)]
                    ELSE cr
         IN  [exc |-> "", cr |-> cr1, uc |-> uc, cl |-> InitialCaller(cr1, uc)]

\* the client credentials of an application: scopes and redirect_uri of
\* its own
ClientCredsInputs ==
    {[c EXCEPT !.scopes = AppScopes, !.redirect_uri = AppRedirectUri] :
       c \in {ClientCreds(ids, ids, None, NoExpiry) : ids \in BOOLEAN}
                \cup {ClientCreds(ids, ids, "t1", e) :
                        ids \in BOOLEAN, e \in {NoExpiry, 0, MaxTime + 1}}}

\* the credentials of a user whose id is known
UserCredsInputs ==
    {[UserCreds("t1", rt, e) EXCEPT !.scopes = AppScopes, !.user_id = UserId] :
       rt \in RefreshTokens \cup {None}, e \in {NoExpiry, 0, MaxTime + 1}}

Init ==
    /\ IS_ASYNC \in BOOLEAN
    /\ max_retries \in 0..MaxRetriesBound
    /\ timeout_is_retried \in (IF IS_ASYNC THEN BOOLEAN ELSE {FALSE})
    /\ client_creds = ClientObj
    /\ user_creds \in {NoObj, UserObj}
    /\ \E cc \in ClientCredsInputs, uc \in UserCredsInputs :
         /\ user_creds = NoObj => uc.refresh_token = None /\ uc.expiry = NoExpiry
         /\ user_creds # NoObj => cc.access_token = None
         /\ creds = [o \in Objs |->
                       IF o = ClientObj THEN cc
                       ELSE IF o = UserObj THEN uc
                       ELSE UserCreds(None, None, NoExpiry)]
    /\ caller = InitialCaller(creds, user_creds)
    /\ session = IF IS_ASYNC THEN DefaultSession
                 ELSE [_create_session_sync(max_retries) EXCEPT !.owner = caller]
    /\ now = 0
    /\ stack = [t \in TaskIds |-> <<>>]
    /\ ctl = [t \in TaskIds |-> Idle]
    /\ batch = NoBatch
    /\ h = NoHistory


\* the constructor is called with an access token or none, a user credential
\* or none, and a client credential whose token may be the empty string.  h
\* keeps the arguments: snap.cr the credentials given, snap.uc the user
\* credential given, snap.arg whether an access token was given.
InitConstruct ==
    /\ IS_ASYNC \in BOOLEAN
    /\ max_retries \in 0..MaxRetriesBound
    /\ timeout_is_retried \in (IF IS_ASYNC THEN BOOLEAN ELSE {FALSE})
    /\ client_creds = ClientObj
    /\ now = 0
    /\ stack = [t \in TaskIds |-> <<>>]
    /\ batch = NoBatch
    /\ \E access_token \in {None, "t1"}, user_creds_arg \in {NoObj, UserObj},
          cc \in ClientCredsInputs \cup {[c EXCEPT !.access_token = ""] :
                                            c \in ClientCredsInputs},
          uc \in UserCredsInputs :
         LET given == [o \in Objs |->
                         IF o = ClientObj THEN cc
                         ELSE IF o = UserObj /\ user_creds_arg # NoObj THEN uc
                         ELSE UserCreds(None, None, NoExpiry)]
             new == __init__(access_token, user_creds_arg, given)
         IN  /\ creds = new.cr
             /\ user_creds = new.uc
             /\ caller = new.cl
             /\ session = IF IS_ASYNC THEN DefaultSession
                          ELSE [_create_session_sync(max_retries)
                                  EXCEPT !.owner = new.cl]
             /\ ctl = [t \in TaskIds |->
                        IF t = 0 /\ new.exc # ""
                        THEN Ctl("done", NoReq, Raise(new.exc, NoResp))
                        ELSE Idle]
             /\ h = [NoHistory EXCEPT
                       !.op = "__init__",
                       !.snap = [cr |-> given, cl |-> NoObj, at |-> 0,
                                 uc |-> user_creds_arg,
                                 arg |-> access_token # None]]

(***************************************************************************)
(* Continuations: what each function does when the call it waits for       *)
(* returns v (a value or a raised exception).  m is the machine with the   *)
(* frame f already popped.                                                 *)
(***************************************************************************)
IsExc(v) == v.t = "exc"

\* res.json() of requests: only a JSON body decodes
DecodesSync(body) == body.bk = "json"
\* await res.json(content_type=None) or {}: an empty body gives {}
DecodesAsync(body) == body.bk # "nonjson"
JsonAsync(res) == IF res.status = 204 \/ res.body.bk = "empty" THEN EmptyObj
                  ELSE res.body

\* res.json().get("error", None).get("message", None) is defined
HasErrorObject(obj) == obj.err = "dict"

\* a faulty 401 branch that refreshes and resends whatever the message is
UnauthorizedAlwaysRefreshed(m, r, res, obj, fn) ==
    IF ~HasErrorObject(obj) THEN Raising(m, "AttributeError")
    ELSE IF r.auth = NoHeader THEN Raising(m, "KeyError")
    ELSE RefreshToken(Push([m EXCEPT !.h.reactive = @ + 1],
                           Frame(fn, r, 0, FALSE, r.auth)))

\* the 401 branch shared by both dispatchers, on the decoded body obj: the
\* token-expired message starts refresh-and-resend, another message is an
\* AuthError
Unauthorized(m, r, res, obj, fn) ==
    IF ~HasErrorObject(obj) THEN Raising(m, "AttributeError")
    ELSE IF obj.msg = TOKEN_EXPIRED_MSG
    THEN IF r.auth = NoHeader THEN Raising(m, "KeyError")
         ELSE RefreshToken(Push([m EXCEPT !.h.reactive = @ + 1],
                                Frame(fn, r, 0, FALSE, r.auth)))
    ELSE Returning(m, Raise("AuthError", res))

\* Spotify._send_request: what follows self._session.send(prepped)
_send_request(m, r, res) ==
    IF res = TimedOut THEN Returning(m, Raise("ApiError", NoResp))
    ELSE IF res.status \in 200..299 THEN Returning(m, ResVal(res))
    ELSE IF ~DecodesSync(res.body) THEN Raising(m, "JSONDecodeError")
    ELSE IF res.status = 401 THEN Unauthorized(m, r, res, res.body, "_send_request")
    ELSE Returning(m, Raise("ApiError", res))

\* AsyncSpotify._handle_send_requests: what follows await sess.request(...)
_handle_send_requests(m, r, res) ==
    IF res = TimedOut THEN Raising(m, "TimeoutError")
    ELSE IF ~DecodesAsync(res.body) THEN Raising(m, "JSONDecodeError")
    ELSE IF res.status \in 200..299
         THEN Returning(m, ResVal(Resp(res.status, JsonAsync(res))))
    ELSE IF res.status = 401
         THEN Unauthorized(m, r, res, JsonAsync(res), "_handle_send_requests")
    ELSE IF res.status = 429 THEN Returning(m, Raise("_TooManyRequests", res))
    ELSE Returning(m, Raise("ApiError", res))

\* the request is sent again with the new header.  In the cooperative client
\* the request is a dict mutated in place, so the enclosing backoff loop holds
\* the new header too.
Resend(m, r) ==
    IF IS_ASYNC
    THEN LET n == Len(m.s)
             m1 == IF n > 0 /\ m.s[n].fn = "_send_request_with_backoff"
                   THEN [m EXCEPT !.s[n].r = r] ELSE m
         IN  Send(m1, r)
    ELSE Send(m, r)

\* the loop guard: new_auth_header == old_auth_header, where old_auth_header
\* is r.headers["Authorization"] and new_auth_header is the dict
\* self._access_authorization_header
HeaderUnchanged(new_auth_header, old_auth_header) ==
    PyEq(new_auth_header, PyStr(old_auth_header))

\* a faulty 401 branch that refreshes and returns without sending again
_return_after_refresh(m, f, v) ==
    IF IsExc(v) THEN Returning(m, v)
    ELSE Returning([m EXCEPT !.h.refreshDone = @ + 1], NoneVal)

\* _send_request / _handle_send_requests after self._refresh_token() came back
\* inside the 401 branch
_resend_after_refresh(m, f, v) ==
    IF IsExc(v) THEN Returning(m, v)
    ELSE LET m0 == [m EXCEPT !.h.refreshDone = @ + 1]
         IN  IF m.cl = NoObj THEN Raising(m0, "ApiError")
             ELSE LET new_auth_header == _access_authorization_header(m.cr, m.cl)
                      m1 == [m0 EXCEPT !.h.same = @ \/ new_auth_header.val = f.old]
                  IN  IF HeaderUnchanged(new_auth_header, f.old)
                      THEN Raising(m1, "RuntimeError")
                      ELSE Resend(m1, [f.r EXCEPT !.auth = new_auth_header.val,
                                                  !.rda = m1.h.refreshDone,
                                                  !.by = m.cl,
                                                  !.prev = f.old])

\* _send_authorized_request(s) after the proactive self._refresh_token()
_send_after_refresh(m, f, v) ==
    IF IsExc(v) THEN Returning(m, v)
    ELSE AttachAndSend([m EXCEPT !.h.refreshDone = @ + 1], f.r)

\* the attributes ClientCreds.__init__ and UserCreds.__init__ create
ClientCredsAttrs == {"client_id", "client_secret", "scopes", "redirect_uri",
                     "show_dialog", "access_token", "expiry"}
UserCredsAttrs == {"access_token", "refresh_token", "expiry", "user_id", "scopes"}

\* _client_json_to_object: a ClientCreds() built with the defaults of
\* __init__, then given the token and the expiry of the response
_client_json_to_object(body) == ClientCreds(FALSE, FALSE, body.tok, now + body.exp)

\* _update_client_creds_with: every attribute of the new object that is not
\* None is set on the existing client credential
_update_client_creds_with(cr, cc, client_creds_object) ==
    [cr EXCEPT ![cc] = UpdateWith(@, client_creds_object, ClientCredsAttrs)]

\* authorize_client_creds after the grant request came back: an ApiError
\* becomes an AuthError; on success the credential is updated, the client
\* credential becomes the caller and the authorization is probed
_authorize_client_creds(m, v) ==
    IF IsExc(v)
    THEN IF IsApiError(v.exc) THEN Returning(m, [v EXCEPT !.exc = "AuthError"])
         ELSE Returning(m, v)
    ELSE LET new_creds_model == _client_json_to_object(v.body)
             m1 == [m EXCEPT !.cr = _update_client_creds_with(m.cr, m.cc,
                                                              new_creds_model),
                             !.cl = m.cc]
         IN  Dispatch(Push(m1, PlainFrame("_check_authorization", NoReq)),
                      "probe", 0)

\* authorize_client_creds after self._check_authorization() came back
_authorize_client_creds_checked(m, v) ==
    Returning(m, IF IsExc(v) THEN v ELSE NoneVal)

\* _user_json_to_object: a UserCreds built from access_token, scope,
\* expires_in and the optional refresh_token of the response
_user_json_to_object(body) ==
    [UserCreds(body.tok, body.rt, now + body.exp) EXCEPT !.scopes = GrantedScopes]

\* a faulty update that puts the new object in the place of the old one
_replace_user_creds_with(cr, user_creds_object) ==
    [cr EXCEPT ![user_creds] = user_creds_object]

\* _update_user_creds_with: every attribute of the new object that is not
\* None is set on the existing user credential
_update_user_creds_with(cr, user_creds_object) ==
    [cr EXCEPT ![user_creds] = UpdateWith(@, user_creds_object, UserCredsAttrs)]

\* _refresh_user_token after the refresh request came back
_refresh_user_token(m, v) ==
    IF IsExc(v) THEN Returning(m, v)
    ELSE Returning([m EXCEPT !.cr = _update_user_creds_with(
                                       m.cr, _user_json_to_object(v.body))],
                   NoneVal)

\* a faulty setter that leaves the active caller as it was
user_creds_setter_keeping_caller(ses, user_creds_object) ==
    [ses |-> IF IS_ASYNC THEN ses
             ELSE [_create_session_sync(max_retries)
                     EXCEPT !.owner = user_creds_object],
     uc |-> user_creds_object,
     cl |-> caller]

\* the user_creds setter: the blocking client closes its session and creates
\* another; the object given becomes the user credential and the active
\* caller
user_creds_setter(ses, user_creds_object) ==
    [ses |-> IF IS_ASYNC THEN ses
             ELSE [_create_session_sync(max_retries)
                     EXCEPT !.owner = user_creds_object],
     uc |-> user_creds_object,
     cl |-> user_creds_object]

\* _set_empty_user_creds_if_none: an empty UserCreds is stored when the client
\* has no user credential (the attribute is written, the setter is not
\* called); the user credential becomes the active caller
_set_empty_user_creds_if_none(m) ==
    LET m1 == IF m.uc = NoObj
              THEN [m EXCEPT !.uc = UserObj,
                             !.cr[UserObj] = UserCreds(None, None, NoExpiry)]
              ELSE m
    IN  [m1 EXCEPT !.cl = m1.uc]

\* the deprecated property oauth_uri, wrapped in
\* _set_empty_user_creds_if_none: the uri is built from the client credential
\* and the state of the user credential
oauth_uri(m) ==
    Returning(_set_empty_user_creds_if_none(m), Val("str", "", -1, BodyEmpty, <<>>))

\* auth_uri(): the uri is built from the arguments and the client credential
auth_uri(m) == Returning(m, Val("str", "", -1, BodyEmpty, <<>>))

\* build_user_creds(grant, set_user_creds): the decorator, then
\* _request_user_creds, a request that is not authorized and whose headers
\* are built by _prep__request_user_creds from the client id and secret
build_user_creds(m, set_user_creds) ==
    LET m1 == _set_empty_user_creds_if_none(m)
        fn == IF set_user_creds THEN "build_user_creds.set_user_creds"
              ELSE "build_user_creds"
        r == Req("token_code", 0, BasicHeader)
    IN  IF ~HasClientAuthorization(m1.cr, m1.cc)
        THEN Raising(m1, "AttributeError")
        ELSE Send(Push(Push(m1, PlainFrame(fn, r)),
                       PlainFrame("_dispatch_request", r)), r)

\* build_user_creds after _request_user_creds came back: the credential is
\* minted as an object of its own, assigned through the setter when
\* set_user_creds is true, and returned
_build_user_creds(m, f, v) ==
    IF IsExc(v) THEN Returning(m, v)
    ELSE IF v.body.tok = None THEN Raising(m, "KeyError")
    ELSE LET user_creds_model == Fresh(m.uc)
             m1 == [m EXCEPT !.cr[user_creds_model] = _user_json_to_object(v.body)]
             set == user_creds_setter(m.ses, user_creds_model)
         IN  Returning(IF f.fn = "build_user_creds.set_user_creds"
                       THEN [m1 EXCEPT !.uc = set.uc, !.cl = set.cl,
                                       !.ses = set.ses]
                       ELSE m1,
                       CredsVal(user_creds_model))

\* is_active after self._check_authorization() came back: except AuthError
\* gives False, no exception gives True, any other exception is not caught
_is_active(m, v) ==
    IF IsExc(v)
    THEN IF v.exc = "AuthError" THEN Returning(m, BoolVal(FALSE))
         ELSE Returning(m, v)
    ELSE Returning(m, BoolVal(TRUE))

\* _dispatch_request.sync_wrapper: .json() of the response, {} when the body
\* does not decode; a JSONDecodeError raised anywhere inside the send is
\* caught as well
sync_wrapper(v) ==
    IF IsExc(v)
    THEN IF v.exc = "JSONDecodeError" THEN EmptyDict ELSE v
    ELSE IF DecodesSync(v.body) THEN JsonVal(v.body) ELSE EmptyDict

\* _dispatch_request.async_wrapper: the json attribute of the response
async_wrapper(v) == IF IsExc(v) THEN v ELSE JsonVal(v.body)

_dispatch_request(m, v) ==
    Returning(m, IF IS_ASYNC THEN async_wrapper(v) ELSE sync_wrapper(v))

\* the exceptions backoff.on_exception retries
Retried(exc) ==
    \/ exc = "_TooManyRequests"
    \/ exc = "TimeoutError" /\ timeout_is_retried

\* a faulty bound that gives up one try late
MaxTriesExceededLate(tries) == tries = max_retries + 1

\* backoff.on_exception(max_tries = self.max_retries): it gives up when tries
\* equals max_tries
MaxTriesExceeded(tries) == tries = max_retries

\* _send_request_with_backoff: backoff.on_exception around
\* _handle_send_requests.  A result and an exception that is not retried go
\* to the caller; so does a retried one when the tries or the time are used
\* up; otherwise the loop sleeps.
_send_request_with_backoff(m, f, v) ==
    IF ~IsExc(v) \/ ~Retried(v.exc) THEN Returning(m, v)
    ELSE IF MaxTriesExceeded(f.tries) \/ f.over THEN Returning(m, v)
    ELSE [Push(m, f) EXCEPT !.c = Ctl("sleep", f.r, v)]

(***************************************************************************)
(* gather                                                                  *)
(***************************************************************************)
\* the requests the coroutines of a batch of n return (to_gather = True)
BatchRequest(i) == Req("api", i, NoHeader)

\* _send_requests, gather True: one future per request, each sending its
\* request under its own backoff loop; the caller waits in asyncio.gather
FanOut(m, rs) ==
    LET n == Len(rs)
        wired(i) == Wire(Machine(m.cr, m.cl, <<>>, m.h), rs[i]).c
    IN  [m EXCEPT
           !.s = Append(@, PlainFrame("_send_requests.gather", NoReq)),
           !.c = Ctl("wait", NoReq, NoneVal),
           !.h.wires = @ + n,
           !.h.apiWires = [u \in DOMAIN @ |-> IF u <= n THEN @[u] + 1 ELSE @[u]],
           !.futs = [i \in 1..n |->
                       [s |-> <<Frame("_send_request_with_backoff",
                                      wired(i).r, 1, FALSE, NoHeader)>>,
                        c |-> wired(i)]]]

\* for req in reqs: req["headers"].update(self._access_authorization_header)
AttachAndFanOut(m, n, pro) ==
    IF m.cl = NoObj THEN Raising(m, "ApiError")
    ELSE FanOut(m, [i \in 1..n |->
                      [BatchRequest(i) EXCEPT
                         !.auth = _access_authorization_header(m.cr, m.cl).val,
                         !.rda = m.h.refreshDone,
                         !.by0 = m.cl, !.by = m.cl,
                         !.pro = pro,
                         !.rd0 = m.h.refreshDone0]])

\* _send_authorized_requests(*requests, gather = True)
SendAuthorizedBatch(m, n) ==
    LET exp == caller_access_is_expired(m.cr, m.cl, now)
        m0 == [m EXCEPT !.h.refreshDone0 = m.h.refreshDone, !.h.pro0 = exp]
    IN  IF exp = "True"
        THEN RefreshToken(Push(m0, PlainFrame("_send_authorized_requests", NoReq)))
        ELSE AttachAndFanOut(m0, n, exp)

\* _send_authorized_requests after the proactive refresh came back
_send_batch_after_refresh(m, v, n) ==
    IF IsExc(v) THEN Returning(m, v)
    ELSE AttachAndFanOut([m EXCEPT !.h.refreshDone = @ + 1], n, m.h.pro0)

\* a faulty _gather that ignores refresh_first
_gather_unrefreshed(m, n, refresh_first) ==
    SendAuthorizedBatch(Push(m, PlainFrame("_gather", NoReq)), n)

\* _gather: the optional refresh, then the authorized send of the batch
_gather(m, n, refresh_first) ==
    IF refresh_first
    THEN RefreshToken(Push(m, PlainFrame("_gather.refresh", NoReq)))
    ELSE SendAuthorizedBatch(Push(m, PlainFrame("_gather", NoReq)), n)

\* _gather after the refresh asked for by refresh_first came back
_gather_refreshed(m, v, n) ==
    IF IsExc(v) THEN Returning(m, v)
    ELSE SendAuthorizedBatch(Push([m EXCEPT !.h.refreshDone = @ + 1],
                                  PlainFrame("_gather", NoReq)), n)

\* getattr(response, "json", response): the decoded body of a response, the
\* object itself for anything else
JsonOrSelf(v) == IF v.t = "res" THEN JsonVal(v.body) ELSE v

\* _gather after _send_authorized_requests came back
_gather_return(m, v) ==
    Returning(m, IF IsExc(v) THEN v
                 ELSE ListVal([i \in 1..Len(v.items) |-> JsonOrSelf(v.items[i])]))

\* a faulty result list, in the reverse of the order of submission
GatherResultsReversed(c, n) == [i \in 1..n |-> c[n + 1 - i].v]

\* the list asyncio.gather resolves to: the outcome of the i-th future at
\* position i
GatherResults(c, n) == [i \in 1..n |-> c[i].v]

\* a faulty done callback that resolves the outer future with the first
\* exception whatever return_exceptions is
_done_callback_raising(b, c, t) ==
    LET b1 == [b EXCEPT !.firstdone = IF @ = 0 THEN t ELSE @]
    IN  IF b.fut # Pending THEN b
        ELSE IF IsExc(c[t].v) THEN [b1 EXCEPT !.fut = c[t].v]
        ELSE IF b.nfinished + 1 = b.n
        THEN [b1 EXCEPT !.nfinished = @ + 1,
                        !.fut = ListVal([i \in 1..b.n |-> c[i].v])]
        ELSE [b1 EXCEPT !.nfinished = @ + 1]

\* the done callback of asyncio.gather, run when future t ends: the first
\* exception resolves the outer future unless return_exceptions; the last
\* future to end resolves it with the list of outcomes
_done_callback(b, c, t) ==
    LET b1 == [b EXCEPT !.firstdone = IF @ = 0 THEN t ELSE @]
    IN  IF b.fut # Pending THEN b
        ELSE IF ~b.return_exceptions /\ IsExc(c[t].v)
        THEN [b1 EXCEPT !.fut = c[t].v]
        ELSE IF b.nfinished + 1 = b.n
        THEN [b1 EXCEPT !.nfinished = @ + 1,
                        !.fut = ListVal(GatherResults(c, b.n))]
        ELSE [b1 EXCEPT !.nfinished = @ + 1]

(***************************************************************************)
(* Running a task to its next suspension point                             *)
(***************************************************************************)
\* the continuation of frame f
Continue(m, f, v, n) ==
    CASE f.fn \in {"_send_request", "_handle_send_requests"} ->
           _resend_after_refresh(m, f, v)
      [] f.fn = "_send_authorized_request" -> _send_after_refresh(m, f, v)
      [] f.fn = "authorize_client_creds" -> _authorize_client_creds(m, v)
      [] f.fn = "_check_authorization" -> _authorize_client_creds_checked(m, v)
      [] f.fn = "_refresh_user_token" -> _refresh_user_token(m, v)
      [] f.fn = "_dispatch_request" -> _dispatch_request(m, v)
      [] f.fn = "is_active" -> _is_active(m, v)
      [] f.fn \in {"build_user_creds", "build_user_creds.set_user_creds"} ->
           _build_user_creds(m, f, v)
      [] f.fn = "_send_requests" -> Returning(m, v)
      [] f.fn = "_send_request_with_backoff" -> _send_request_with_backoff(m, f, v)
      [] f.fn = "_gather.refresh" -> _gather_refreshed(m, v, n)
      [] f.fn = "_send_authorized_requests" -> _send_batch_after_refresh(m, v, n)
      [] f.fn = "_gather" -> _gather_return(m, v)

\* a task runs until it suspends (wire, sleep, wait) or ends (ret on an empty
\* stack): no other task runs in between
RECURSIVE Run(_, _)
Run(m, n) ==
    IF m.c.k = "ret" /\ m.s # <<>>
    THEN Run(Continue(Pop(m), Top(m.s), m.c.v, n), n)
    ELSE m

\* the machine of task t in the current state
Cur(t) == [Machine(creds, caller, stack[t], h) EXCEPT !.c = ctl[t]]

\* control of a task that ran to m: a task that returned with an empty stack
\* is done
Settled(c) == IF c.k = "ret" THEN Ctl("done", NoReq, c.v) ELSE c

\* the state after task t ran to machine m.  Futures that m fanned out
\* start; a future that ended runs the done callback of asyncio.gather.  When
\* the operation ends its session is closed: futures still running are
\* followed no further, and their stacks stay as they were at that moment.
Becomes(t, m) ==
    /\ creds' = m.cr
    /\ caller' = m.cl
    /\ client_creds' = m.cc
    /\ user_creds' = m.uc
    /\ session' = m.ses
    /\ h' = m.h
    /\ stack' = [u \in TaskIds |->
                   IF u = t THEN m.s
                   ELSE IF u \in DOMAIN m.futs THEN m.futs[u].s ELSE stack[u]]
    /\ ctl' = [u \in TaskIds |->
                 IF u = t THEN Settled(m.c)
                 ELSE IF u \in DOMAIN m.futs THEN m.futs[u].c
                 ELSE IF t = 0 /\ m.c.k = "ret" THEN Idle
                 ELSE ctl[u]]
    /\ batch' = IF t # 0 /\ m.c.k = "ret" THEN _done_callback(batch, ctl', t)
                ELSE batch
    /\ UNCHANGED <<config, now>>

\* async with self._session as sess: every _send_requests that has been
\* entered and not left holds a ClientSession of its own
SessionFrames == {"_send_requests", "_send_requests.gather"}
RECURSIVE SessionsOf(_)
SessionsOf(s) ==
    IF s = <<>> THEN 0
    ELSE (IF Top(s).fn \in SessionFrames THEN 1 ELSE 0)
           + SessionsOf(SubSeq(s, 1, Len(s) - 1))
RECURSIVE OpenSessionsUpTo(_)
OpenSessionsUpTo(t) ==
    IF t < 0 THEN 0 ELSE SessionsOf(stack[t]) + OpenSessionsUpTo(t - 1)
OpenSessions == OpenSessionsUpTo(MaxBatch)

\* the state in which a new operation starts as machine m
Starts(m, b) ==
    /\ creds' = m.cr
    /\ caller' = m.cl
    /\ client_creds' = m.cc
    /\ user_creds' = m.uc
    /\ session' = m.ses
    /\ h' = m.h
    /\ stack' = [u \in TaskIds |->
                   IF u = 0 THEN m.s
                   ELSE IF u \in DOMAIN m.futs THEN m.futs[u].s ELSE <<>>]
    /\ ctl' = [u \in TaskIds |->
                 IF u = 0 THEN Settled(m.c)
                 ELSE IF u \in DOMAIN m.futs THEN m.futs[u].c ELSE Idle]
    /\ batch' = b
    /\ UNCHANGED <<config, now>>

(***************************************************************************)
(* Actions                                                                 *)
(***************************************************************************)
\* a public resource method of the client is called
StartCall ==
    /\ ctl[0].k \in {"idle", "done"}
    /\ Starts(Run(Dispatch(Machine(creds, caller, <<>>, Started("call")),
                            "api", 1), 0),
              NoBatch)

\* refresh(): _refresh_token is called on the client
StartRefresh ==
    /\ ctl[0].k \in {"idle", "done"}
    /\ Starts(Run(RefreshToken(Machine(creds, caller, <<>>, StartedOn("refresh"))),
                  0),
              NoBatch)

\* authorize_client_creds() is called on the client
StartAuthorize ==
    /\ ctl[0].k \in {"idle", "done"}
    /\ Starts(Run(AuthorizeClientCreds(
                      Machine(creds, caller, <<>>, StartedOn("authorize"))), 0),
              NoBatch)

\* authorize_client_creds(client_creds) is called with a new ClientCreds
\* object; a client is given a replacement at most once
StartAuthorizeWith ==
    /\ ctl[0].k \in {"idle", "done"}
    /\ client_creds = ClientObj
    /\ \E c \in ClientCredsInputs :
         Starts(Run(AuthorizeClientCreds(
                        _prep_authorize_client_creds(
                            Machine(creds, caller, <<>>, StartedOn("authorize")),
                            OtherClientObj, c)), 0),
                NoBatch)

\* build_user_creds(grant, set_user_creds = ...) is called on the client
StartBuild ==
    /\ ctl[0].k \in {"idle", "done"}
    /\ \E set_user_creds \in BOOLEAN :
         LET hh == [StartedOn("build") EXCEPT !.snap.arg = set_user_creds]
         IN  Starts(Run(build_user_creds(Machine(creds, caller, <<>>, hh),
                                         set_user_creds), 0),
                    NoBatch)

\* the property is_active is read (and awaited, on the cooperative client)
StartIsActive ==
    /\ ctl[0].k \in {"idle", "done"}
    /\ Starts(Run(is_active(Machine(creds, caller, <<>>, StartedOn("is_active"))),
                  0),
              NoBatch)

\* gather / gather_now is called with n request coroutines
StartGather ==
    /\ IS_ASYNC
    /\ ctl[0].k \in {"idle", "done"}
    /\ \E n \in 0..MaxBatch, return_exceptions \in BOOLEAN, refresh_first \in BOOLEAN :
         Starts(Run(_gather(Machine(creds, caller, <<>>, Started("gather")),
                            n, refresh_first), n),
                Batch(n, return_exceptions, refresh_first))

\* the blocking client receives the answer to the request on the wire.  The
\* adapter mounted for the url resends on a status of its force list while
\* its Retry has attempts left and fails with RetryError when it has none.
SendRequest(t) ==
    /\ ~IS_ASYNC
    /\ ctl[t].k = "wire"
    /\ h.wires <= MaxWire
    /\ \E res \in Responses(ctl[t].r) :
         LET r == ctl[t].r
             ad == get_adapter(session, r)
             m == Received(Cur(t), r, res)
         IN  IF res.status \in ad.status_forcelist
             THEN IF h.wires <= ad.total
                  THEN Becomes(t, Wire(m, r))
                  ELSE Becomes(t, Run(Raising(m, "RetryError"), batch.n))
             ELSE Becomes(t, Run(_send_request(m, r, res), batch.n))

\* the cooperative client receives the answer to the request on the wire
HandleSendRequests(t) ==
    /\ IS_ASYNC
    /\ ctl[t].k = "wire"
    /\ h.wires <= MaxWire
    /\ \E res \in Responses(ctl[t].r) :
         Becomes(t, Run(_handle_send_requests(Received(Cur(t), ctl[t].r, res),
                                              ctl[t].r, res), batch.n))

\* the backoff loop wakes up: the next iteration counts a try, reads the
\* elapsed time (over: it has reached max_time) and sends the request again
BackoffWake(t) ==
    /\ ctl[t].k = "sleep"
    /\ \E over \in {Top(stack[t]).over, TRUE} :
         LET m == Cur(t)
             n == Len(m.s)
         IN  Becomes(t, Wire([m EXCEPT !.s[n].tries = @ + 1, !.s[n].over = over,
                                       !.h.over = @ \/ over],
                             m.s[n].r))

\* _send_requests, gather True: asyncio.gather resolved (at once for an empty
\* batch); the session is left and the results or the exception go to _gather
GatherResolved ==
    /\ ctl[0].k = "wait"
    /\ batch.n = 0 \/ batch.fut # Pending
    /\ LET v == IF batch.n = 0 THEN ListVal(<<>>) ELSE batch.fut
       IN  Becomes(0, Run(Returning(Pop(Cur(0)), v), batch.n))

\* client.user_creds = UserCreds(...): a credential object the client does
\* not hold is assigned.  On the cooperative client it can run whenever the
\* dispatcher is suspended.
SetUserCreds ==
    /\ ~IS_ASYNC => ctl[0].k \in {"idle", "done"}
    /\ LET o == Fresh(user_creds)
           set == user_creds_setter(session, o)
       IN  /\ \E uc \in UserCredsInputs : creds' = [creds EXCEPT ![o] = uc]
           /\ user_creds' = set.uc
           /\ caller' = set.cl
           /\ session' = set.ses
    /\ UNCHANGED <<IS_ASYNC, max_retries, timeout_is_retried, client_creds,
                   now, stack, ctl, batch, h>>

\* user code reads access_is_expired on a credential the client holds
ReadAccessIsExpired ==
    /\ ctl[0].k \in {"idle", "done"}
    /\ \E o \in {client_creds} \cup (IF user_creds # NoObj THEN {user_creds} ELSE {}) :
         LET hh == [StartedOn("access_is_expired") EXCEPT !.snap.cl = o]
             x == access_is_expired(creds[o], now)
             v == IF x = "None" THEN NoneVal ELSE BoolVal(x = "True")
         IN  Starts(Run(Returning(Machine(creds, caller, <<>>, hh), v), 0),
                    NoBatch)

\* user code reads is_oauth_ready on the client credential
ReadIsOauthReady ==
    /\ ctl[0].k \in {"idle", "done"}
    /\ LET hh == [StartedOn("is_oauth_ready") EXCEPT !.snap.cl = client_creds]
           v == BoolVal(is_oauth_ready(creds[client_creds]))
       IN  Starts(Run(Returning(Machine(creds, caller, <<>>, hh), v), 0), NoBatch)

\* user code assigns the application's id and secret on the client
\* credential object of the client
SetClientCredsAttrs ==
    /\ ctl[0].k \in {"idle", "done"}
    /\ ~creds[client_creds].client_id
    /\ creds' = [creds EXCEPT ![client_creds].client_id = TRUE,
                              ![client_creds].client_secret = TRUE]
    /\ UNCHANGED <<config, client_creds, user_creds, caller, session, now,
                   stack, ctl, batch, h>>

\* a second client is constructed with no argument: its client_creds is the
\* object of the default, its caller is resolved from that object.  The
\* operation returns the caller of the second client.
ConstructOther ==
    /\ ctl[0].k \in {"idle", "done"}
    /\ LET other == __init__(None, NoObj, creds)
           hh == [StartedOn("construct_other") EXCEPT !.snap.cl = DefaultClientCreds]
       IN  Starts(Run(Returning(Machine(creds, caller, <<>>, hh),
                                CredsVal(other.cl)), 0),
                  NoBatch)

\* user code reads the deprecated property oauth_uri
ReadOauthUri ==
    /\ ctl[0].k \in {"idle", "done"}
    /\ Starts(Run(oauth_uri(Machine(creds, caller, <<>>, StartedOn("oauth_uri"))),
                  0),
              NoBatch)

\* user code calls auth_uri()
CallAuthUri ==
    /\ ctl[0].k \in {"idle", "done"}
    /\ Starts(Run(auth_uri(Machine(creds, caller, <<>>, StartedOn("auth_uri"))),
                  0),
              NoBatch)

\* time passes between operations
Tick ==
    /\ ctl[0].k \in {"idle", "done"}
    /\ now < MaxTime
    /\ now' = now + 1
    /\ UNCHANGED <<config, creds, client_creds, user_creds, caller, session,
                   stack, ctl, batch, h>>

Next ==
    \/ StartCall
    \/ StartRefresh
    \/ StartAuthorize
    \/ StartGather
    \/ StartBuild
    \/ StartIsActive
    \/ GatherResolved
    \/ SetUserCreds
    \/ ReadAccessIsExpired
    \/ Tick
    \/ \E t \in TaskIds :
         \/ SendRequest(t)
         \/ HandleSendRequests(t)
         \/ BackoffWake(t)

Spec == Init /\ [][Next]_vars

\* single sends only, on either client
NextCall ==
    \/ StartCall
    \/ Tick
    \/ \E t \in TaskIds :
         \/ SendRequest(t)
         \/ HandleSendRequests(t)
         \/ BackoffWake(t)

SpecCall == Init /\ [][NextCall]_vars

\* the first operation on a client is a batch
FirstGather == h.op = "none" /\ StartGather

\* one batch on a cooperative client
NextGather ==
    \/ FirstGather
    \/ GatherResolved
    \/ \E t \in TaskIds :
         \/ HandleSendRequests(t)
         \/ BackoffWake(t)

\* a cooperative client constructed with a client id and secret, without a
\* user credential and with max_retries = 2, on a runtime whose timeouts the
\* backoff loop does not retry
InitGather ==
    /\ Init
    /\ IS_ASYNC
    /\ max_retries = 2
    /\ ~timeout_is_retried
    /\ user_creds = NoObj
    /\ HasClientAuthorization(creds, client_creds)

SpecGather == InitGather /\ [][NextGather]_vars

\* refreshes and client authorizations only, on either client
NextRefresh ==
    \/ StartRefresh
    \/ StartAuthorize
    \/ \E t \in TaskIds :
         \/ SendRequest(t)
         \/ HandleSendRequests(t)
         \/ BackoffWake(t)

\* a client with max_retries = 2, on a runtime whose timeouts the backoff
\* loop does not retry
InitRefresh ==
    /\ Init
    /\ max_retries = 2
    /\ ~timeout_is_retried

SpecRefresh == InitRefresh /\ [][NextRefresh]_vars

\* the first operation on a client is a single send
FirstCall == h.op = "none" /\ StartCall

\* the first user credential is assigned
FirstUserCreds == user_creds = NoObj /\ SetUserCreds

\* one send on a cooperative client whose user credential is assigned while
\* the client runs
NextSwitch ==
    \/ FirstCall
    \/ FirstUserCreds
    \/ \E t \in TaskIds :
         \/ HandleSendRequests(t)
         \/ BackoffWake(t)

\* a cooperative client authorized with client credentials, without a user
\* credential and with max_retries = 2
InitSwitch ==
    /\ Init
    /\ IS_ASYNC
    /\ max_retries = 2
    /\ ~timeout_is_retried
    /\ user_creds = NoObj
    /\ caller = ClientObj
    /\ HasClientAuthorization(creds, client_creds)

SpecSwitch == InitSwitch /\ [][NextSwitch]_vars

\* a user credential is assigned between operations, while the client holds
\* UserObj or none
NewUserCreds ==
    /\ user_creds # OtherUserObj
    /\ ctl[0].k \in {"idle", "done"}
    /\ SetUserCreds

\* user credentials are assigned between refreshes
NextAssign ==
    \/ NewUserCreds
    \/ StartRefresh
    \/ \E t \in TaskIds :
         \/ SendRequest(t)
         \/ HandleSendRequests(t)

\* a client that sends every request once, with a client id and secret
InitAssign ==
    /\ Init
    /\ max_retries = 1
    /\ ~timeout_is_retried
    /\ HasClientAuthorization(creds, client_creds)

SpecAssign == InitAssign /\ [][NextAssign]_vars

\* user credentials are minted
NextBuild ==
    \/ StartBuild
    \/ \E t \in TaskIds :
         \/ SendRequest(t)
         \/ HandleSendRequests(t)

SpecBuild == InitAssign /\ [][NextBuild]_vars

\* the client is probed
NextActive ==
    \/ StartIsActive
    \/ \E t \in TaskIds :
         \/ SendRequest(t)
         \/ HandleSendRequests(t)
         \/ BackoffWake(t)

SpecActive == InitRefresh /\ [][NextActive]_vars

\* authorizations with and without a replacement client credential
NextCaller ==
    \/ StartAuthorize
    \/ StartAuthorizeWith
    \/ \E t \in TaskIds :
         \/ SendRequest(t)
         \/ HandleSendRequests(t)

\* a client with max_retries = 0
InitCaller ==
    /\ Init
    /\ max_retries = 0
    /\ ~timeout_is_retried

SpecCaller == InitCaller /\ [][NextCaller]_vars

\* two clients constructed without a client credential: the first is given
\* the id and the secret afterwards and authorizes, the second is constructed
\* at any time
NextShared ==
    \/ SetClientCredsAttrs
    \/ StartAuthorize
    \/ ConstructOther
    \/ \E t \in TaskIds :
         \/ SendRequest(t)
         \/ HandleSendRequests(t)

\* Spotify() or AsyncSpotify(): client_creds is the object of the default,
\* there is no user credential and no caller
InitShared ==
    /\ IS_ASYNC \in BOOLEAN
    /\ max_retries \in 0..MaxRetriesBound
    /\ timeout_is_retried = FALSE
    /\ client_creds = DefaultClientCreds
    /\ user_creds = NoObj
    /\ creds = [o \in Objs |->
                  IF o \in ClientObjs THEN ClientCreds(FALSE, FALSE, None, NoExpiry)
                  ELSE UserCreds(None, None, NoExpiry)]
    /\ caller = InitialCaller(creds, user_creds)
    /\ session = IF IS_ASYNC THEN DefaultSession
                 ELSE [_create_session_sync(max_retries) EXCEPT !.owner = caller]
    /\ now = 0
    /\ stack = [t \in TaskIds |-> <<>>]
    /\ ctl = [t \in TaskIds |-> Idle]
    /\ batch = NoBatch
    /\ h = NoHistory

SpecShared == InitShared /\ [][NextShared]_vars

\* authorization uris are generated as time passes
NextUri ==
    \/ ReadOauthUri
    \/ CallAuthUri
    \/ Tick

SpecUri == Init /\ [][NextUri]_vars

\* credentials are inspected as time passes
NextExpiry ==
    \/ ReadAccessIsExpired
    \/ Tick

SpecExpiry == Init /\ [][NextExpiry]_vars

\* the attributes a ClientCreds can hold when user code has set them
ClientCredsStates ==
    {[ClientCreds(id, secret, tok, NoExpiry)
        EXCEPT !.redirect_uri = uri, !.scopes = scopes, !.show_dialog = dialog] :
       id \in BOOLEAN, secret \in BOOLEAN, tok \in {None, "t1"},
       uri \in {None, "", DefaultRedirectUri, AppRedirectUri},
       scopes \in {None, "[]", ALL_SCOPES, AppScopes},
       dialog \in {None, "False", "True"}}

\* is_oauth_ready is read on client credentials in every state
NextReady ==
    \/ ReadIsOauthReady
    \/ Tick

\* a blocking client without a user credential, whose client credential is
\* in any of these states
InitReady ==
    /\ IS_ASYNC = FALSE /\ max_retries = 0 /\ timeout_is_retried = FALSE
    /\ client_creds = ClientObj /\ user_creds = NoObj
    /\ \E c \in ClientCredsStates :
         creds = [o \in Objs |-> IF o = ClientObj THEN c
                                 ELSE UserCreds(None, None, NoExpiry)]
    /\ caller = InitialCaller(creds, user_creds)
    /\ session = [_create_session_sync(max_retries) EXCEPT !.owner = caller]
    /\ now = 0
    /\ stack = [t \in TaskIds |-> <<>>]
    /\ ctl = [t \in TaskIds |-> Idle]
    /\ batch = NoBatch
    /\ h = NoHistory

SpecReady == InitReady /\ [][NextReady]_vars

\* clients are constructed from every combination of arguments
SpecInit == InitConstruct /\ [][NextExpiry]_vars

(***************************************************************************)
(* Properties of a single send (SpecCall)                                  *)
(***************************************************************************)
\* C1: the infinite-loop guard.  When a 401 with the token-expired message is
\* followed by a refresh that returns normally and leaves the caller's bearer
\* header as it was, the request is not put on the wire again: a request is
\* never on the wire, as the resend of a failed attempt, with the
\* Authorization value that attempt carried.
C1_LoopGuard ==
    \A t \in TaskIds :
        (ctl[t].k = "wire" /\ ctl[t].r.prev # NoHeader)
            => ctl[t].r.auth # ctl[t].r.prev

\* C2: with the client credential as the active caller (id and secret set,
\* token not expired locally), a send whose first response is 401
\* token-expired and whose later responses are all 2xx ends by returning the
\* body of the last response to the request, after exactly one refresh, which
\* is exactly one client-credentials grant.
C2_ClientRefreshOnce ==
    LET c == ctl[0]
        b == h.lastApi.body
    IN  (/\ h.op = "call"
         /\ h.pre.caller = "ClientCreds" /\ h.pre.auth /\ h.pre.expired # "True"
         /\ h.first = Resp(401, ErrExpired)
         /\ h.rest200)
        => /\ h.refreshCalls = 1
           /\ h.grants = 1
           /\ c.k \in {"wire", "done"}
           /\ c.k = "done" =>
                /\ c.v.t = "json"
                /\ h.lastApi.status = 200
                /\ c.v.body = (IF b.bk = "json" THEN b ELSE EmptyObj)
                /\ h.refreshDone = 1
                /\ h.apiWires[1] = 2

\* a client-credential send went 401 token-expired, grant, probe, resend and
\* returned the resource
C2_Witness ==
    /\ h.op = "call"
    /\ h.pre.caller = "ClientCreds" /\ h.pre.auth /\ h.pre.expired # "True"
    /\ h.first = Resp(401, ErrExpired)
    /\ h.rest200
    /\ ctl[0].k = "done"
    /\ ctl[0].v = JsonVal(OkApi(1))
    /\ h.grants = 1
    /\ h.wires = 4

\* C3: when the active caller is a user credential whose expiry has passed
\* and which holds no refresh token, an authorized send raises AuthError and
\* nothing is put on the wire, neither a refresh request nor the request.
C3_NoRefreshTokenNoNetwork ==
    (/\ h.op = "call"
     /\ h.pre.caller = "UserCreds" /\ h.pre.expired = "True" /\ ~h.pre.rt)
        => /\ ctl[0].k = "done"
           /\ ctl[0].v.t = "exc"
           /\ ctl[0].v.exc = "AuthError"
           /\ h.wires = 0

\* an expired user credential without refresh token was the caller of a send
C3_Witness ==
    /\ h.op = "call"
    /\ h.pre.caller = "UserCreds" /\ h.pre.expired = "True" /\ ~h.pre.rt
    /\ ctl[0].k = "done"
    /\ ctl[0].v.exc = "AuthError"

\* C4: every authorized send evaluates access_is_expired of the active caller
\* before its first attempt.  When it is True a refresh has completed before
\* the request is first on the wire, and the first attempt carries the token
\* the caller holds after it; when it is False or None no refresh completes
\* before the first attempt.
C4_ProactiveRefresh ==
    \A t \in TaskIds :
        LET r == ctl[t].r
        IN  (ctl[t].k = "wire" /\ r.pro # "n/a")
                => /\ r.pro \in {"True", "False", "None"}
                   /\ (h.op = "call" /\ r.kind = "api") => r.pro = h.pre.expired
                   /\ r.pro = "True" => r.rd1 > r.rd0
                   /\ r.pro # "True" => r.rd1 = r.rd0
                   /\ r.att = 1
                        => r.auth = BearerHeader(creds[caller].access_token)

\* the request of a caller found expired is on the wire for the first time,
\* with the token a refresh has just issued
C4_Witness ==
    /\ h.op = "call"
    /\ h.pre.expired = "True"
    /\ ctl[0].k = "wire"
    /\ ctl[0].r.kind = "api"
    /\ ctl[0].r.pro = "True"
    /\ ctl[0].r.att = 1
    /\ ctl[0].r.auth = BearerHeader("t2")
    /\ h.refreshDone = 1

C6_NoSilentSwallowing ==
    (/\ h.op = "call"
     /\ ctl[0].k = "done"
     /\ h.lastApi.status > 0
     /\ h.lastApi.status \notin 200..299)
        => /\ ctl[0].v.t = "exc"
           /\ ctl[0].v.exc \in TypedErrors

C8_BlockingRateLimit ==
    (/\ ~IS_ASYNC
     /\ h.op = "call"
     /\ ctl[0].k = "done"
     /\ h.all429 /\ h.lastApi # NoResp)
        => /\ h.apiWires[1] = 1 + max_retries
           /\ ctl[0].v.t = "exc"
           /\ ctl[0].v.exc \in {"_TooManyRequests", "RetryError"}

\* C9: a timeout of the request ends the send on either client: the request
\* is not sent again and the caller receives ApiError.
C9_TimeoutTerminal ==
    (h.op = "call" /\ h.lastApi = TimedOut)
        => /\ ctl[0].k = "done"
           /\ ctl[0].v.t = "exc"
           /\ ctl[0].v.exc = "ApiError"

(***************************************************************************)
(* Properties of a batch (SpecGather)                                      *)
(***************************************************************************)
\* C10: batch ordering.  Whatever the order in which the requests of a batch
\* of n complete, the list asyncio.gather resolves to holds the outcome of
\* the i-th future at position i, and the list gather returns has length n
\* and holds at position i the body of that outcome: the body of a response
\* to the i-th request.
C10_BatchOrdering ==
    /\ (ctl[0].k = "wait" /\ batch.fut.t = "list")
          => /\ Len(batch.fut.items) = batch.n
             /\ \A i \in 1..batch.n :
                  /\ ctl[i].k = "done"
                  /\ batch.fut.items[i] = ctl[i].v
    /\ (h.op = "gather" /\ ctl[0].k = "done" /\ ctl[0].v.t = "list")
          => /\ Len(ctl[0].v.items) = batch.n
             /\ \A i \in 1..batch.n :
                  LET x == ctl[0].v.items[i]
                  IN  /\ batch.n > 0 => x = JsonOrSelf(batch.fut.items[i])
                      /\ x.t \in {"json", "exc"}
                      /\ x.t = "json" => x.body \in {OkApi(i), EmptyObj}

\* a batch of two whose second request completed first returned both bodies
\* in the order of submission
C10_Witness ==
    /\ h.op = "gather"
    /\ batch.n = 2
    /\ batch.firstdone = 2
    /\ ctl[0].k = "done"
    /\ ctl[0].v.t = "list"
    /\ ctl[0].v.items = <<JsonVal(OkApi(1)), JsonVal(OkApi(2))>>

\* the batch has been fanned out: its futures hold the requests
FannedOut == h.op = "gather" /\ h.apiWires[1] > 0

\* C11: refresh-first batch.  When gather is called with refresh_first and
\* the active caller is expired, _refresh_token is called exactly once for
\* the whole batch whatever its size (calls made by the 401 branch of a
\* request answered token-expired aside), and that call has returned before
\* the authorized send of the batch is entered: no request of the batch is
\* built, given its header or put on the wire before, and the authorized send
\* finds the caller unexpired and refreshes nothing.
C11_RefreshFirstOnce ==
    (h.op = "gather" /\ batch.refresh_first /\ h.pre.expired = "True")
        => /\ h.refreshCalls - h.reactive = 1
           /\ h.grants >= 1
           /\ FannedOut
                => /\ h.refreshDone0 >= 1
                   /\ h.pro0 = "False"
                   /\ h.refreshDone - h.reactive <= 1
                   /\ \A t \in 1..batch.n :
                        (ctl[t].k \in {"wire", "sleep"} /\ ctl[t].r.kind = "api")
                            => /\ ctl[t].r.rd0 = h.refreshDone0
                               /\ ctl[t].r.rd1 >= h.refreshDone0

\* a batch of MaxBatch requests is on the wire after the one refresh that
\* refresh_first asked for
C11_Witness ==
    /\ h.op = "gather" /\ batch.refresh_first /\ h.pre.expired = "True"
    /\ batch.n = MaxBatch
    /\ \A t \in 1..batch.n : ctl[t].k = "wire" /\ ctl[t].r.att = 1
    /\ h.refreshCalls = 1 /\ h.refreshDone = 1 /\ h.grants = 1

\* C12: a refresh triggered by one request of a batch is visible to the
\* others: no request of the batch is put on the wire carrying an access
\* token that a refresh completed earlier in the same batch, after the
\* request was given its header, has already replaced.
C12_RefreshVisible ==
    \A t \in TaskIds :
        (h.op = "gather" /\ ctl[t].k = "wire" /\ ctl[t].r.kind = "api")
            => ~ctl[t].r.stale

C14_SessionsClosed ==
    (IS_ASYNC /\ ctl[0].k = "done") => OpenSessions = 0

(***************************************************************************)
(* Properties of a send during which the caller is switched (SpecSwitch)   *)
(***************************************************************************)
\* the frames of the 401 branch of an authorized request on the stack of
\* task t under which the refresh strategy fn runs
RefreshedUnder(t, fn) ==
    {i \in 1..Len(stack[t]) :
        /\ stack[t][i].fn = "_handle_send_requests"
        /\ stack[t][i].r.by0 # NoObj
        /\ i < Len(stack[t])
        /\ stack[t][i + 1].fn = fn}

\* C15: a request in flight when the active caller is switched is completed
\* with the credential that was the caller when its header was attached: it
\* is never sent again with the bearer token of the newly assigned caller,
\* and the refresh it triggers is never the refresh of the newly assigned
\* caller.
C15_InFlightCaller ==
    \A t \in TaskIds :
        /\ (ctl[t].k = "wire" /\ ctl[t].r.prev # NoHeader)
              => ctl[t].r.by = ctl[t].r.by0
        /\ \A i \in RefreshedUnder(t, "_refresh_user_token") :
              stack[t][i].r.by0 = user_creds
        /\ \A i \in RefreshedUnder(t, "authorize_client_creds") :
              stack[t][i].r.by0 = client_creds

(***************************************************************************)
(* Properties of refresh() and authorize_client_creds() (SpecRefresh)      *)
(***************************************************************************)
\* the kinds of the requests that are on the wire or wait in a backoff loop
KindsInFlight ==
    {ctl[t].r.kind : t \in {u \in TaskIds : ctl[u].k \in {"wire", "sleep"}}}

\* the operation ended by returning None
Succeeded == ctl[0].k = "done" /\ ctl[0].v = NoneVal

\* C16: refresh routing.  refresh() runs one strategy, chosen by the identity
\* of the active caller: when the caller is the client's user credential
\* every request it sends is the refresh-token exchange, and when it is the
\* client's client credential every request is the client-credentials grant
\* or the authorization probe of authorize_client_creds; after a refresh
\* that succeeded the caller is the credential object it was before.
C16_RefreshRouting ==
    (h.op = "refresh" /\ h.snap.cl # NoObj)
        => /\ h.snap.cl = user_creds
                => KindsInFlight \subseteq {"token_refresh"} /\ h.grants = 0
           /\ h.snap.cl = client_creds
                => KindsInFlight \subseteq {"token_cc", "probe"}
           /\ (h.snap.cl = client_creds /\ h.wires > 0) => h.grants >= 1
           /\ Succeeded => caller = h.snap.cl /\ h.wires > 0

\* a refresh() called with the user credential as the caller succeeded: the
\* user holds the new token and is still the caller
C16_Witness ==
    /\ h.op = "refresh" /\ h.snap.cl = UserObj /\ user_creds = UserObj
    /\ Succeeded
    /\ h.wires = 1 /\ h.grants = 0
    /\ caller = UserObj
    /\ creds[UserObj].access_token = "t2"

\* C17: refresh() of a client whose active caller is neither its client
\* credential nor its user credential (a client just constructed without a
\* user credential and without a client token has no caller) fails with the
\* typed "no caller to refresh" error, an ApiError, sends nothing and
\* changes no credential.
C17_NoCallerToRefresh ==
    (h.op = "refresh" /\ h.snap.cl = NoObj)
        => /\ ctl[0].k = "done"
           /\ ctl[0].v = Raise("ApiError", NoResp)
           /\ h.wires = 0
           /\ creds = h.snap.cr /\ caller = h.snap.cl

\* C18: client re-authorization.  When the grant of authorize_client_creds
\* has succeeded (the authorization probe is on the wire), the client
\* credential is the object it was, with a token and an expiry of the grant
\* and with its id, secret, scopes and redirect uri as they were, and it is
\* the caller; and an authorize_client_creds whose grant failed does not end
\* with an ApiError: its caller receives an AuthError instead.
C18_ClientReauthorization ==
    LET old == h.snap.cr[client_creds]
        new == creds[client_creds]
    IN  h.op = "authorize"
          => /\ (ctl[0].k = "wire" /\ ctl[0].r.kind = "probe" /\ h.wires = 2)
                  => /\ caller = client_creds
                     /\ new.access_token \in Tokens
                     /\ new.expiry \in {now + e : e \in ExpiresIn}
                     /\ new.client_id = old.client_id
                     /\ new.client_secret = old.client_secret
                     /\ new.scopes = old.scopes
                     /\ new.redirect_uri = old.redirect_uri
             /\ (ctl[0].k = "done" /\ IsExc(ctl[0].v) /\ h.grants = h.wires)
                  => ~IsApiError(ctl[0].v.exc)

\* C19: the refresh of the user token is a partial update.  After a
\* refresh() of the user credential that succeeded, the user credential is
\* the object it was and is the caller; when the refresh was one exchange,
\* it holds the access token and the expiry of the response, the refresh
\* token of the response when there is one and else the one it held, and the
\* user id it held; the client credential is as it was.
C19_UserRefreshPartialUpdate ==
    LET old == h.snap.cr[UserObj]
        new == creds[UserObj]
        b == h.last.res.body
    IN  (h.op = "refresh" /\ h.snap.cl = UserObj /\ Succeeded)
          => /\ user_creds = UserObj /\ caller = UserObj
             /\ new.cls = "UserCreds"
             /\ new.user_id = old.user_id
             /\ new.refresh_token # None
             /\ creds[ClientObj] = h.snap.cr[ClientObj]
             /\ h.wires = 1
                  => /\ h.last.res.status = 200
                     /\ new.access_token = b.tok
                     /\ new.expiry = now + b.exp
                     /\ new.refresh_token =
                          (IF b.rt = None THEN old.refresh_token ELSE b.rt)
                     /\ new = [old EXCEPT !.access_token = b.tok,
                                          !.expiry = now + b.exp,
                                          !.refresh_token = new.refresh_token,
                                          !.scopes = GrantedScopes]

\* a user credential was refreshed by a response without a refresh token:
\* it holds the new access token, the refresh token and the user id it had
C19_Witness ==
    /\ h.op = "refresh" /\ h.snap.cl = UserObj /\ Succeeded
    /\ h.wires = 1
    /\ h.last.res.body.rt = None
    /\ h.snap.cr[UserObj].access_token = "t1"
    /\ creds[UserObj].access_token = "t2"
    /\ creds[UserObj].refresh_token = "r1"
    /\ creds[UserObj].user_id = UserId

\* refresh() was called with the user credential as the caller and that
\* credential holds no refresh token
UnrefreshableUser ==
    /\ h.op = "refresh"
    /\ h.snap.cl = UserObj
    /\ h.snap.cr[UserObj].refresh_token = None

\* C20: refresh idempotence on an unrefreshable user.  Every refresh of a
\* user credential without a refresh token, the first as well as any later
\* one in a row, ends with the same AuthError, puts no request on the wire
\* and leaves the credentials and the caller as they were.
C20_UnrefreshableIdempotent ==
    UnrefreshableUser
        => /\ ctl[0].k = "done"
           /\ ctl[0].v = Raise("AuthError", NoResp)
           /\ h.wires = 0
           /\ KindsInFlight = {}
           /\ creds = h.snap.cr
           /\ caller = h.snap.cl

\* the refresh of an unrefreshable user was called MaxRepeat times in a row
C20_Witness ==
    /\ UnrefreshableUser
    /\ h.nth = MaxRepeat
    /\ ctl[0].k = "done"
    /\ ctl[0].v.exc = "AuthError"

(***************************************************************************)
(* Properties of the error taxonomy                                        *)
(***************************************************************************)
\* C21: a user credential with a refresh token recovers from expiry.  A
\* send that starts with the user credential as the caller, expired and
\* holding a refresh token, ends in success with the access token the
\* provider issued when the refresh and every later request are answered
\* 2xx, and in every other case ends in one of the typed errors, never in
\* an untyped failure.
C21_RecoverFromExpiry ==
    (/\ h.op = "call"
     /\ h.pre.caller = "UserCreds" /\ h.pre.expired = "True" /\ h.pre.rt
     /\ ctl[0].k = "done")
        => /\ IsExc(ctl[0].v) => ctl[0].v.exc \in TypedErrors
           /\ (h.first.status = 200 /\ h.rest200)
                => /\ ctl[0].v.t = "json"
                   /\ creds[UserObj].access_token = h.first.body.tok

\* C22: every refresh() that leaves the credential unrefreshed is reported
\* as AuthError: a refresh() called with a caller ends by returning or by
\* raising AuthError, and in particular a refresh-token exchange of the user
\* credential that is answered with a status outside 2xx ends in AuthError,
\* not in ApiError.
C22_RefreshFailsWithAuthError ==
    (h.op = "refresh" /\ h.snap.cl # NoObj /\ ctl[0].k = "done")
        => /\ IsExc(ctl[0].v) => ctl[0].v.exc = "AuthError"
           /\ (/\ h.snap.cl = UserObj
               /\ h.last.res.status > 0
               /\ h.last.res.status \notin 200..299)
                => ctl[0].v = Raise("AuthError", h.last.res)

\* C23: a refresh that ran successfully inside the 401 branch and produced
\* the Authorization value the failed request already carried is reported as
\* AuthError: once that has happened in a send, the send has ended by raising
\* AuthError.
C23_NoChangeIsAuthError ==
    (h.op = "call" /\ h.same)
        => /\ ctl[0].k = "done"
           /\ IsExc(ctl[0].v)
           /\ ctl[0].v.exc = "AuthError"

\* C24: header building.  In a single send, every authorized request on the
\* wire carries "Bearer " followed by the access token the active caller holds
\* at that moment; a send started with no active caller ends at once with
\* ApiError, with no request put on the wire and no retry.
C24_HeaderBuilding ==
    /\ \A t \in TaskIds :
         (ctl[t].k = "wire" /\ ctl[t].r.kind \in {"api", "probe"})
            => /\ caller # NoObj
               /\ ctl[t].r.auth = BearerHeader(creds[caller].access_token)
    /\ (h.op = "call" /\ h.pre.caller = "none")
         => /\ ctl[0].k = "done"
            /\ ctl[0].v = Raise("ApiError", NoResp)
            /\ h.wires = 0
            /\ h.refreshCalls = 0

\* C24, at the moment of building: an authorized request that is on the wire
\* for the first time carries "Bearer " followed by the access token the
\* active caller holds; a send started with no active caller ends at once
\* with ApiError, with no request put on the wire and no retry.  (A request
\* that a backoff loop sends again keeps the header it was given.)
C24_HeaderWhenBuilt ==
    /\ \A t \in TaskIds :
         (/\ ctl[t].k = "wire" /\ ctl[t].r.kind \in {"api", "probe"}
          /\ ctl[t].r.att = 1)
            => /\ caller # NoObj
               /\ ctl[t].r.auth = BearerHeader(creds[caller].access_token)
    /\ (h.op = "call" /\ h.pre.caller = "none")
         => /\ ctl[0].k = "done"
            /\ ctl[0].v = Raise("ApiError", NoResp)
            /\ h.wires = 0
            /\ h.refreshCalls = 0

C26_CallerSwitch ==
    [][user_creds' # user_creds
         => /\ caller' = user_creds'
            /\ creds'[user_creds'] \in UserCredsInputs
            /\ \A o \in Objs \ {user_creds'} : creds'[o] = creds[o]]_vars

\* a refresh runs for a user credential that replaced a refreshed one, which
\* still holds the token of its refresh
C26_Witness ==
    /\ user_creds = OtherUserObj /\ caller = OtherUserObj
    /\ creds[UserObj].access_token = "t2"
    /\ creds[OtherUserObj].access_token = "t1"
    /\ h.op = "refresh" /\ h.snap.cl = OtherUserObj
    /\ ctl[0].k = "wire" /\ ctl[0].r.kind = "token_refresh"

(***************************************************************************)
(* Properties of build_user_creds (SpecBuild)                              *)
(***************************************************************************)
\* C27: in the blocking client an operation that makes another user
\* credential object the active caller closes the session and installs a new
\* one: between operations, the session the client holds was created when
\* the user credential that is the active caller became the caller.
C27_SessionPerUser ==
    (/\ ~IS_ASYNC
     /\ ctl[0].k \in {"idle", "done"}
     /\ caller \in UserObjs)
        => session.owner = caller

\* C28: is_active probes without raising.  Whatever the state and whatever
\* the probe is answered, it ends by returning a bool: False without a caller,
\* with no request sent; False when the probe was rejected with 401; True
\* when the probe was answered 2xx.
C28_IsActiveNeverRaises ==
    LET v == ctl[0].v
    IN  (h.op = "is_active" /\ ctl[0].k = "done")
        => /\ v.t \in {"True", "False"}
           /\ h.snap.cl = NoObj => v.t = "False" /\ h.wires = 0
           /\ (h.last.res.status = 401 /\ h.last.res.body = ErrOther)
                => v.t = "False"
           /\ (h.snap.cl # NoObj /\ h.last.res.status = 200) => v.t = "True"

\* C29: build_user_creds returns the credential it minted from the response.
\* With set_user_creds false the user credential and the active caller are
\* what they were when it was called; with set_user_creds true the minted
\* credential is the user credential and the active caller.
C29_BuildUserCreds ==
    LET v == ctl[0].v
    IN  (h.op = "build" /\ ctl[0].k = "done" /\ ~IsExc(v))
        => /\ v.t = "creds"
           /\ creds[v.obj].access_token = h.last.res.body.tok
           /\ creds[v.obj].refresh_token = h.last.res.body.rt
           /\ h.snap.arg => user_creds = v.obj /\ caller = v.obj
           /\ ~h.snap.arg => user_creds = h.snap.uc /\ caller = h.snap.cl

(***************************************************************************)
(* Properties of construction (SpecInit)                                   *)
(***************************************************************************)
\* C30: initial caller resolution.  Supplying both an access token and a user
\* credential fails with ValueError.  Otherwise the caller is the user
\* credential when one was supplied (the object given) or a bare access token
\* was (a user credential with that token and no refresh token); else the
\* client credential when it holds a token; else none.
C30_InitialCaller ==
    LET given == h.snap.cr
        token == h.snap.arg
        user == h.snap.uc # NoObj
    IN  h.op = "__init__"
        => /\ (token /\ user)
                <=> (ctl[0].k = "done" /\ ctl[0].v = Raise("ValueError", NoResp))
           /\ ~(token /\ user)
                => /\ ctl[0].k = "idle"
                   /\ creds[ClientObj] = given[ClientObj]
                   /\ user => /\ caller = h.snap.uc /\ user_creds = h.snap.uc
                              /\ creds[caller] = given[h.snap.uc]
                   /\ token => /\ caller # NoObj /\ user_creds = caller
                               /\ creds[caller].cls = "UserCreds"
                               /\ creds[caller].access_token = "t1"
                               /\ creds[caller].refresh_token = None
                   /\ (~user /\ ~token)
                        => /\ user_creds = NoObj
                           /\ caller = (IF given[ClientObj].access_token
                                              \in Tokens
                                        THEN ClientObj ELSE NoObj)

\* a client was constructed from a bare access token and a client credential
\* that holds a token of its own: the caller is the user credential
C30_Witness ==
    /\ h.op = "__init__" /\ h.snap.arg /\ h.snap.uc = NoObj
    /\ creds[ClientObj].access_token = "t1"
    /\ caller = UserObj /\ creds[UserObj].access_token = "t1"
    /\ creds[UserObj].refresh_token = None

\* C31: is_oauth_ready is true if and only if the client id, the redirect uri
\* and the scopes of the client credential are all present; no other
\* attribute influences the result.
C31_IsOauthReady ==
    LET c == h.snap.cr[ClientObj]
    IN  (h.op = "is_oauth_ready" /\ ctl[0].k = "done")
        => /\ ctl[0].v.t \in {"True", "False"}
           /\ (ctl[0].v.t = "True")
                <=> (/\ c.client_id
                     /\ c.redirect_uri \notin {None, ""}
                     /\ c.scopes \notin {None, "[]"})
           /\ creds = h.snap.cr

(***************************************************************************)
(* Properties of the refresh-and-resend loop (SpecCall, SpecGather)        *)
(***************************************************************************)
\* C32: the refresh-and-resend loop terminates.  A send whose request is
\* answered 401 token-expired every time does not go on refreshing and
\* re-sending for as long as there are answers: it is never the case that
\* every request the wire budget MaxWire allows was spent on such cycles and
\* the request is on the wire once more.
C32_RefreshLoopTerminates ==
    ~(/\ h.op = "call"
      /\ ctl[0].k = "wire" /\ ctl[0].r.kind = "api"
      /\ h.wires > MaxWire
      /\ h.reactive >= MaxWire \div 2
      /\ h.refreshDone = h.reactive
      /\ h.apiWires[1] = h.reactive + 1)

\* C33: all wire sends of one batch, the fan-out and the resends after a 401
\* token-expired, go over the one session created for the batch: while the
\* batch runs no further session is opened.
C33_OneSessionPerBatch ==
    (IS_ASYNC /\ h.op = "gather" /\ ctl[0].k # "done") => OpenSessions <= 1

\* C34: a 401 whose body is malformed (no "error" object, an "error" that is
\* a plain string, or a body that does not parse) reaches the caller of the
\* send as an AuthError; no other exception type escapes.
C34_MalformedUnauthorized ==
    (/\ h.op = "call" /\ ctl[0].k = "done"
     /\ h.last.res.status = 401
     /\ h.last.res = h.lastApi
     /\ h.last.res.body.err # "dict")
        => (IsExc(ctl[0].v) /\ ctl[0].v.exc = "AuthError")

(***************************************************************************)
(* Properties of the caller and the credential objects                     *)
(***************************************************************************)
\* C35: after any sequence of public operations (construction, assignment of
\* user credentials, authorize_client_creds with or without a replacement
\* client credential, succeeding or failing, refreshes) the caller is none,
\* the client's current client credential object or its current user
\* credential object.
C35_CallerIsCurrent ==
    (ctl[0].k \in {"idle", "done"}) => caller \in {NoObj, client_creds, user_creds}

\* C36: two clients constructed without an explicit client credential do not
\* share credential state: whatever the first client was given and was
\* granted, a second client constructed with no argument has no token of its
\* own and so no caller.
C36_NoSharedDefault ==
    (h.op = "construct_other" /\ ctl[0].k = "done") => ctl[0].v.obj = NoObj

\* C37: generating an authorization uri, with auth_uri() or with the
\* deprecated property oauth_uri, changes neither the caller nor the user
\* credential of the client.
C37_UriLeavesCaller ==
    (h.op \in {"auth_uri", "oauth_uri"} /\ ctl[0].k = "done")
        => /\ caller = h.snap.cl
           /\ user_creds = h.snap.uc
           /\ creds = h.snap.cr

\* C38: failure atomicity of authorize_client_creds.  Whenever it raises,
\* because the grant failed or because the probe after a successful grant
\* failed, the caller, the client credential object, its token and its
\* expiry are what they were before the call.
C38_AuthorizeFailureAtomic ==
    (h.op = "authorize" /\ ctl[0].k = "done" /\ IsExc(ctl[0].v))
        => /\ caller = h.snap.cl
           /\ creds[client_creds].access_token
                = h.snap.cr[client_creds].access_token
           /\ creds[client_creds].expiry = h.snap.cr[client_creds].expiry

\* C39: on the cooperative client, when the resend after a successful refresh
\* uses up its own bound of attempts, the error propagates and the enclosing
\* backoff loop does not send the request again: a request answered once with
\* 401 token-expired and from then on with errors that are retried is put on
\* the wire at most 1 + max_retries times.
C39_ResendBudget ==
    (/\ IS_ASYNC /\ h.op = "call"
     /\ max_retries >= 1
     /\ h.first = Resp(401, ErrExpired)
     /\ h.reactive = 1)
        => h.apiWires[1] <= 1 + max_retries

====
